---- MODULE Spec2Model ----
(***************************************************************************)
(* inject.scopes: AbstractScope and its three lifetimes, ApplicationScope  *)
(* (one dict shared by every thread), ThreadScope (a threading.local dict  *)
(* per thread) and RequestScope (a ThreadScope with a per-thread           *)
(* request_started flag).  Every method is cut at its accesses to the      *)
(* binding store and to the factory dict, so that the steps of calls made  *)
(* by different threads interleave as the interpreter lets them.           *)
(***************************************************************************)
EXTENDS Integers, Sequences, FiniteSets, TLC

VARIABLES
    scope,            \* the class of the scope object under test
    data,             \* the binding dicts: the shared one and one per thread
    factories,        \* self._factories, one dict for all threads
    request_started,  \* RequestLocalBindings.request_started, per thread
    frame,            \* per thread: the call in progress and its locals
    calls,            \* how many objects the factories have made so far
    depth,            \* per thread: nesting of `with scope:` blocks
    reqcalls          \* history: per thread and key, factory invocations made
                      \* for the key since the thread's last end()

vars == <<scope, data, factories, request_started, frame, calls, depth,
          reqcalls>>

(***************************************************************************)
(* Bounds of the model.                                                    *)
(***************************************************************************)
MaxCalls == 2      \* factory invocations
MaxNest == 2       \* nesting depth of with-blocks

Threads == {"t1", "t2"}
MainThread == "t1"
Keys == {"k1", "k2"}
ScopeKey == "ApplicationScope"
AllKeys == Keys \cup {ScopeKey}
Scopes == {"ApplicationScope", "ThreadScope", "RequestScope"}

(***************************************************************************)
(* Python objects.  Every object is a pair, so that any two compare.       *)
(***************************************************************************)
None == <<"None", 0>>
True == <<"True", 0>>
False == <<"False", 0>>
Self == <<"self", 0>>
NoKey == <<"NoKey", 0>>                \* the key is not in the dict
Objects == {<<"v", 1>>, <<"v", 2>>}    \* the values callers bind
Factories == {"f1", "f2"}              \* the callables callers register
NotCallable == "obj"                   \* an object that is not callable
NoFactory == "NoKey"                   \* the key is not in _factories
ExcTypes == {"none", "BodyError"}      \* what a with-body ends with

\* factory(): each invocation makes a new object, the n-th made by f
Made(f, n) == <<f, n>>

callable(x) == x \in Factories
Bool(b) == IF b THEN True ELSE False

EmptyDict == [k \in AllKeys |-> NoKey]
NoFactories == [k \in Keys |-> NoFactory]

(***************************************************************************)
(* The binding store.  ApplicationScope._bindings is a plain dict, shared; *)
(* ThreadScope and RequestScope hold a threading.local whose _data is      *)
(* created for each thread on its first access.                            *)
(***************************************************************************)
SharedStore == "shared"
Stores == Threads \cup {SharedStore}

\* mutant: the thread-local scopes keep one dict for all threads
Store_shared(t) == SharedStore

Store(t) == IF scope = "ApplicationScope" THEN SharedStore ELSE t

bindings(t) == data[Store(t)]

is_bound(t, type) == bindings(t)[type] # NoKey

is_factory_bound(type) == factories[type] # NoFactory

\* mutant: the request is never asked for
request_not_required(t) == TRUE

\* RequestScope._request_required passes
request_required(t) == scope = "RequestScope" => request_started[t]

(***************************************************************************)
(* A thread's call frame.                                                  *)
(***************************************************************************)
Idle == [pc |-> "idle", op |-> "none", type |-> "none", to |-> None,
         factory |-> NoFactory, ret |-> None, exc |-> "none",
         logged |-> <<>>, invoked |-> 0,
         pre |-> EmptyDict, prefac |-> NoFactories]

\* A call of op on type by t starts: the frame, with the state the call found.
Call(t, op, type) ==
    [Idle EXCEPT !.op = op, !.type = type, !.pre = bindings(t),
                 !.prefac = factories]

raise(fr, e) == [fr EXCEPT !.pc = "done", !.exc = e]
return(fr, v) == [fr EXCEPT !.pc = "done", !.ret = v]
info(fr, msg) == [fr EXCEPT !.logged = Append(@, msg)]
goto(fr, pc) == [fr EXCEPT !.pc = pc]

\* the scope object as its constructor leaves it, but for the factories
Constructed ==
    /\ scope \in Scopes
    /\ data = [s \in Stores |->
                 IF scope = "ApplicationScope" /\ s = SharedStore
                 THEN [EmptyDict EXCEPT ![ScopeKey] = Self]
                 ELSE EmptyDict]
    /\ request_started = [t \in Threads |-> FALSE]
    /\ frame = [t \in Threads |-> Idle]
    /\ calls = 0
    /\ depth = [t \in Threads |-> 0]
    /\ reqcalls = [t \in Threads |-> [k \in Keys |-> 0]]

Init == Constructed /\ factories = NoFactories

Set(t, fr) == frame' = [frame EXCEPT ![t] = fr]
At(t, pc) == frame[t].pc = pc

(***************************************************************************)
(* bind, lines 28-35 (RequestScope.bind, lines 187-189, checks the request *)
(* first).  bind_enter is the call up to its first read of the store.      *)
(***************************************************************************)
\* mutant: bind refuses a key that is bound
bind_enter_strict(t, fr) ==
    IF ~request_required(t) THEN raise(fr, "NoRequestError")
    ELSE IF is_bound(t, fr.type) THEN raise(fr, "AlreadyBound")
         ELSE goto(fr, "bind_store")

\* mutant: bind stores over an existing binding, no notice, no unbind
bind_enter_silent(t, fr) ==
    IF ~request_required(t) THEN raise(fr, "NoRequestError")
    ELSE goto(fr, "bind_store")

bind_enter(t, fr) ==
    IF ~request_required(t) THEN raise(fr, "NoRequestError")
    ELSE IF is_bound(t, fr.type)
         THEN goto(info(fr, "Overriding"), "unbind_in")
         ELSE goto(fr, "bind_store")

Bind(t, type, to) ==
    /\ At(t, "idle")
    /\ Set(t, bind_enter(t, [Call(t, "bind", type) EXCEPT !.to = to]))
    /\ UNCHANGED <<scope, data, factories, request_started, calls, depth,
                   reqcalls>>

\* self._bindings[type] = to; the log; and get's `return inst`
bind_store(t) ==
    /\ At(t, "bind_store")
    /\ LET fr == frame[t] IN
        /\ data' = [data EXCEPT ![Store(t)][fr.type] = fr.to]
        /\ Set(t, return(info(fr, "Bound"),
                         IF fr.op = "get" THEN fr.to ELSE None))
    /\ UNCHANGED <<scope, factories, request_started, calls, depth, reqcalls>>

(***************************************************************************)
(* unbind, lines 37-40 (RequestScope.unbind, lines 191-193).  The          *)
(* membership test and the del are two accesses to the store.              *)
(***************************************************************************)
after_unbind(fr) ==
    IF fr.op = "unbind" THEN return(fr, None) ELSE goto(fr, "bind_store")

\* mutant: unbind deletes without looking
unbind_enter_unchecked(t, fr) ==
    IF ~request_required(t) THEN raise(fr, "NoRequestError")
    ELSE goto(fr, "unbind_del")

unbind_enter(t, fr) ==
    IF ~request_required(t) THEN raise(fr, "NoRequestError")
    ELSE IF is_bound(t, fr.type) THEN goto(fr, "unbind_del")
         ELSE after_unbind(fr)

Unbind(t, type) ==
    /\ At(t, "idle")
    /\ Set(t, unbind_enter(t, Call(t, "unbind", type)))
    /\ UNCHANGED <<scope, data, factories, request_started, calls, depth,
                   reqcalls>>

\* bind's self.unbind(type), line 32
unbind_in(t) ==
    /\ At(t, "unbind_in")
    /\ Set(t, unbind_enter(t, frame[t]))
    /\ UNCHANGED <<scope, data, factories, request_started, calls, depth,
                   reqcalls>>

\* del self._bindings[type], a KeyError when the key is gone; the log
unbind_del(t) ==
    /\ At(t, "unbind_del")
    /\ LET fr == frame[t] IN
        IF is_bound(t, fr.type)
        THEN /\ data' = [data EXCEPT ![Store(t)][fr.type] = NoKey]
             /\ Set(t, after_unbind(info(fr, "Unbound")))
        ELSE /\ Set(t, raise(fr, "KeyError"))
             /\ UNCHANGED data
    /\ UNCHANGED <<scope, factories, request_started, calls, depth,
                   reqcalls>>

(***************************************************************************)
(* is_bound and the membership test, lines 25-26 and 42-43;                *)
(* is_factory_bound, lines 57-58.                                          *)
(***************************************************************************)
\* mutant: is_bound asks for the request as bind does
IsBound_guarded(t, type) ==
    /\ At(t, "idle")
    /\ Set(t, IF ~request_required(t)
              THEN raise(Call(t, "is_bound", type), "NoRequestError")
              ELSE return(Call(t, "is_bound", type),
                          Bool(is_bound(t, type))))
    /\ UNCHANGED <<scope, data, factories, request_started, calls, depth,
                   reqcalls>>

IsBound(t, type) ==
    /\ At(t, "idle")
    /\ Set(t, return(Call(t, "is_bound", type), Bool(is_bound(t, type))))
    /\ UNCHANGED <<scope, data, factories, request_started, calls, depth,
                   reqcalls>>

Contains(t, type) ==
    /\ At(t, "idle")
    /\ Set(t, return(Call(t, "__contains__", type), Bool(is_bound(t, type))))
    /\ UNCHANGED <<scope, data, factories, request_started, calls, depth,
                   reqcalls>>

IsFactoryBound(t, type) ==
    /\ At(t, "idle")
    /\ Set(t, return(Call(t, "is_factory_bound", type),
                     Bool(is_factory_bound(type))))
    /\ UNCHANGED <<scope, data, factories, request_started, calls, depth,
                   reqcalls>>

(***************************************************************************)
(* bind_factory, lines 45-50, and unbind_factory, lines 52-55.             *)
(***************************************************************************)
after_unbind_factory(fr) ==
    IF fr.op = "unbind_factory" THEN return(fr, None)
    ELSE goto(fr, "bind_factory_store")

unbind_factory_enter(fr) ==
    IF is_factory_bound(fr.type) THEN goto(fr, "unbind_factory_del")
    ELSE after_unbind_factory(fr)

\* mutant: the factory is not checked
bind_factory_unchecked(fr) == unbind_factory_enter(fr)

bind_factory_enter(fr) ==
    IF ~callable(fr.factory) THEN raise(fr, "FactoryNotCallable")
    ELSE unbind_factory_enter(fr)

BindFactory(t, type, factory) ==
    /\ At(t, "idle")
    /\ Set(t, bind_factory_enter(
                [Call(t, "bind_factory", type) EXCEPT !.factory = factory]))
    /\ UNCHANGED <<scope, data, factories, request_started, calls, depth,
                   reqcalls>>

UnbindFactory(t, type) ==
    /\ At(t, "idle")
    /\ Set(t, unbind_factory_enter(Call(t, "unbind_factory", type)))
    /\ UNCHANGED <<scope, data, factories, request_started, calls, depth,
                   reqcalls>>

\* del self._factories[type], a KeyError when the key is gone; the log
unbind_factory_del(t) ==
    /\ At(t, "unbind_factory_del")
    /\ LET fr == frame[t] IN
        IF is_factory_bound(fr.type)
        THEN /\ factories' = [factories EXCEPT ![fr.type] = NoFactory]
             /\ Set(t, after_unbind_factory(info(fr, "Unbound factory")))
        ELSE /\ Set(t, raise(fr, "KeyError"))
             /\ UNCHANGED factories
    /\ UNCHANGED <<scope, data, request_started, calls, depth, reqcalls>>

\* mutant: a new factory drops the value made by the old one
bind_factory_store_fresh(t) ==
    /\ At(t, "bind_factory_store")
    /\ factories' = [factories EXCEPT ![frame[t].type] = frame[t].factory]
    /\ data' = [data EXCEPT ![Store(t)][frame[t].type] = NoKey]
    /\ Set(t, return(frame[t], None))
    /\ UNCHANGED <<scope, request_started, calls, depth, reqcalls>>

\* self._factories[type] = factory
bind_factory_store(t) ==
    /\ At(t, "bind_factory_store")
    /\ factories' = [factories EXCEPT ![frame[t].type] = frame[t].factory]
    /\ Set(t, return(frame[t], None))
    /\ UNCHANGED <<scope, data, request_started, calls, depth, reqcalls>>

(***************************************************************************)
(* get, lines 60-68 (RequestScope.get, lines 195-197).                     *)
(***************************************************************************)
\* mutant: get asks the factories before the bindings
get_enter_factory_first(t, fr) ==
    IF ~request_required(t) THEN raise(fr, "NoRequestError")
    ELSE IF is_factory_bound(fr.type) THEN goto(fr, "get_factory")
         ELSE IF is_bound(t, fr.type) THEN goto(fr, "get_item")
              ELSE return(fr, None)

get_enter(t, fr) ==
    IF ~request_required(t) THEN raise(fr, "NoRequestError")
    ELSE IF is_bound(t, fr.type) THEN goto(fr, "get_item")
         ELSE goto(fr, "get_factory_in")

Get(t, type) ==
    /\ At(t, "idle")
    /\ Set(t, get_enter(t, Call(t, "get", type)))
    /\ UNCHANGED <<scope, data, factories, request_started, calls, depth,
                   reqcalls>>

\* return self._bindings.get(type): None when the key is gone
get_item(t) ==
    /\ At(t, "get_item")
    /\ LET fr == frame[t] IN
        Set(t, return(fr, IF is_bound(t, fr.type) THEN bindings(t)[fr.type]
                          ELSE None))
    /\ UNCHANGED <<scope, data, factories, request_started, calls, depth,
                   reqcalls>>

\* mutant: a key with no factory is an error
get_factory_in_strict(t) ==
    /\ At(t, "get_factory_in")
    /\ LET fr == frame[t] IN
        Set(t, IF is_factory_bound(fr.type) THEN goto(fr, "get_factory")
               ELSE raise(fr, "KeyError"))
    /\ UNCHANGED <<scope, data, factories, request_started, calls, depth,
                   reqcalls>>

\* elif type in self._factories; falling off the end returns None
get_factory_in(t) ==
    /\ At(t, "get_factory_in")
    /\ LET fr == frame[t] IN
        Set(t, IF is_factory_bound(fr.type) THEN goto(fr, "get_factory")
               ELSE return(fr, None))
    /\ UNCHANGED <<scope, data, factories, request_started, calls, depth,
                   reqcalls>>

\* factory = self._factories[type], a KeyError when the key is gone;
\* inst = factory()
get_factory(t) ==
    /\ At(t, "get_factory")
    /\ LET fr == frame[t]
           f == factories[fr.type]
       IN IF is_factory_bound(fr.type)
          THEN /\ calls < MaxCalls
               /\ calls' = calls + 1
               /\ reqcalls' = [reqcalls EXCEPT ![t][fr.type] = @ + 1]
               /\ Set(t, [fr EXCEPT !.pc = "get_bind", !.factory = f,
                                    !.to = Made(f, calls + 1),
                                    !.invoked = @ + 1])
          ELSE /\ Set(t, raise(fr, "KeyError"))
               /\ UNCHANGED <<calls, reqcalls>>
    /\ UNCHANGED <<scope, data, factories, request_started, depth>>

\* mutant: get returns the new object without binding it
get_bind_unbound(t) ==
    /\ At(t, "get_bind")
    /\ Set(t, return(frame[t], frame[t].to))
    /\ UNCHANGED <<scope, data, factories, request_started, calls, depth,
                   reqcalls>>

\* self.bind(type, inst)
get_bind(t) ==
    /\ At(t, "get_bind")
    /\ Set(t, bind_enter(t, frame[t]))
    /\ UNCHANGED <<scope, data, factories, request_started, calls, depth,
                   reqcalls>>

(***************************************************************************)
(* RequestScope: start and end, lines 179-185, over start_request and      *)
(* end_request, lines 130-135; __enter__ and __exit__, lines 171-177.      *)
(***************************************************************************)
\* mutant: a second start() switches the request off
start_request_toggle(t) ==
    request_started' = [request_started EXCEPT ![t] = ~@]

start_request(t) == request_started' = [request_started EXCEPT ![t] = TRUE]

\* mutant: the request ends without clear()
end_request_uncleared(t) ==
    /\ data' = data
    /\ request_started' = [request_started EXCEPT ![t] = FALSE]

\* mutant: starts are counted, only the outermost end ends the request
end_request_counted(t) ==
    IF depth[t] > 1
    THEN /\ data' = data
         /\ request_started' = request_started
    ELSE /\ data' = [data EXCEPT ![Store(t)] = EmptyDict]
         /\ request_started' = [request_started EXCEPT ![t] = FALSE]

\* mutant: one request for the whole process
end_request_all(t) ==
    /\ data' = [s \in Stores |-> EmptyDict]
    /\ request_started' = [u \in Threads |-> FALSE]

end_request(t) ==
    /\ data' = [data EXCEPT ![Store(t)] = EmptyDict]
    /\ request_started' = [request_started EXCEPT ![t] = FALSE]

\* end() closes the request the invocations are counted in
Forget(t) ==
    reqcalls' = [reqcalls EXCEPT ![t] = [k \in Keys |-> 0]]

Start(t) ==
    /\ scope = "RequestScope"
    /\ At(t, "idle")
    /\ start_request(t)
    /\ Set(t, return(Call(t, "start", "none"), None))
    /\ UNCHANGED <<scope, data, factories, calls, depth, reqcalls>>

End(t) ==
    /\ scope = "RequestScope"
    /\ At(t, "idle")
    /\ end_request(t)
    /\ Forget(t)
    /\ Set(t, return(Call(t, "end", "none"), None))
    /\ UNCHANGED <<scope, factories, calls, depth>>

\* `with scope:` begins: __enter__ starts the request and returns self
With_enter(t) ==
    /\ scope = "RequestScope"
    /\ At(t, "idle")
    /\ depth[t] < MaxNest
    /\ depth' = [depth EXCEPT ![t] = @ + 1]
    /\ start_request(t)
    /\ Set(t, return(Call(t, "__enter__", "none"), Self))
    /\ UNCHANGED <<scope, data, factories, calls, reqcalls>>

\* mutant: __exit__ returns True
exit_suppresses == True

\* __exit__'s return value: False, the body's exception is not suppressed
exit_result == False

\* what leaves a with-block whose body ended with exc_type
propagated(exc_type, result) == IF result = True THEN "none" ELSE exc_type

\* the with-block ends, its body having ended normally ("none") or with an
\* exception: __exit__ ends the request
With_exit(t, exc_type) ==
    /\ scope = "RequestScope"
    /\ At(t, "idle")
    /\ depth[t] > 0
    /\ depth' = [depth EXCEPT ![t] = @ - 1]
    /\ end_request(t)
    /\ Forget(t)
    /\ Set(t, [Call(t, "__exit__", "none") EXCEPT
                 !.pc = "done", !.ret = exit_result, !.to = <<exc_type, 0>>,
                 !.exc = propagated(exc_type, exit_result)])
    /\ UNCHANGED <<scope, factories, calls>>

\* the caller takes the call's result
Return(t) ==
    /\ At(t, "done")
    /\ Set(t, Idle)
    /\ UNCHANGED <<scope, data, factories, request_started, calls, depth,
                   reqcalls>>

(***************************************************************************)
(* The next-state relations.  A caller passes keys of K, values of V and   *)
(* factories (or other objects) of F.                                      *)
(***************************************************************************)
AbstractScope(t, K, V, F) ==
    \/ \E type \in K, to \in V : Bind(t, type, to)
    \/ \E type \in K : Unbind(t, type)
    \/ \E type \in K, factory \in F : BindFactory(t, type, factory)
    \/ \E type \in K : UnbindFactory(t, type)
    \/ \E type \in K : Get(t, type)
    \/ bind_store(t)
    \/ unbind_in(t)
    \/ unbind_del(t)
    \/ unbind_factory_del(t)
    \/ bind_factory_store(t)
    \/ get_item(t)
    \/ get_factory_in(t)
    \/ get_factory(t)
    \/ get_bind(t)
    \/ Return(t)

\* the steps of get alone
Getting(t, K) ==
    \/ \E type \in K : Get(t, type)
    \/ get_item(t)
    \/ get_factory_in(t)
    \/ get_factory(t)
    \/ get_bind(t)
    \/ unbind_in(t)
    \/ unbind_del(t)
    \/ bind_store(t)
    \/ Return(t)

Queries(t, K) ==
    \/ \E type \in K : IsBound(t, type)
    \/ \E type \in K : Contains(t, type)
    \/ \E type \in K : IsFactoryBound(t, type)

RequestScope(t) ==
    \/ Start(t)
    \/ End(t)

WithBlock(t) ==
    \/ With_enter(t)
    \/ \E exc_type \in ExcTypes : With_exit(t, exc_type)

\* threads calling one scope object concurrently
AbstractNext == \E t \in Threads : AbstractScope(t, {"k1"}, Objects, {"f1"})

RequestNext == AbstractNext \/ \E t \in Threads : RequestScope(t)

Next == RequestNext \/ \E t \in Threads : WithBlock(t)

Spec == Init /\ [][Next]_vars

\* an ApplicationScope, a ThreadScope, a RequestScope called concurrently
ApplicationInit == Init /\ scope = "ApplicationScope"
ApplicationSpec == ApplicationInit /\ [][AbstractNext]_vars

ThreadInit == Init /\ scope = "ThreadScope"
ThreadSpec == ThreadInit /\ [][AbstractNext]_vars

RequestInit == Init /\ scope = "RequestScope"
RequestSpec == RequestInit /\ [][RequestNext]_vars

\* a ThreadScope or a RequestScope called concurrently
LocalInit == Init /\ scope # "ApplicationScope"
LocalSpec == LocalInit /\ [][RequestNext]_vars

\* an ApplicationScope with a factory for every key and no binding made yet,
\* whose threads only call get
RaceInit ==
    /\ Constructed
    /\ scope = "ApplicationScope"
    /\ factories \in [Keys -> Factories]
RaceNext == \E t \in Threads : Getting(t, Keys)
RaceSpec == RaceInit /\ [][RaceNext]_vars

\* get on a key that no caller binds or unbinds directly
Resolving(t, K) ==
    \/ \E type \in K : Get(t, type)
    \/ get_item(t)
    \/ get_factory_in(t)
    \/ get_factory(t)
    \/ get_bind(t)
    \/ bind_store(t)
    \/ Return(t)

\* a key's factory is registered once, by whichever thread comes first
Registering(t, K, F) ==
    \/ \E type \in K, factory \in F :
          ~is_factory_bound(type) /\ BindFactory(t, type, factory)
    \/ bind_factory_store(t)

\* a ThreadScope whose threads register factories and call get
MemoNext ==
    \E t \in Threads : Registering(t, Keys, {"f1"}) \/ Resolving(t, Keys)
MemoSpec == ThreadInit /\ [][MemoNext]_vars

\* one thread on a RequestScope, registering f1 only outside a request and
\* f2 only inside one
RegisterOutside(t, K) ==
    \/ \E type \in K : ~request_started[t] /\ BindFactory(t, type, "f1")
    \/ \E type \in K : request_started[t] /\ BindFactory(t, type, "f2")
    \/ \E type \in K : UnbindFactory(t, type)
    \/ unbind_factory_del(t)
    \/ bind_factory_store(t)

Binding(t, K, V) ==
    \/ \E type \in K, to \in V : Bind(t, type, to)
    \/ \E type \in K : Unbind(t, type)
    \/ unbind_in(t)
    \/ unbind_del(t)

OutsideNext ==
    \/ RegisterOutside(MainThread, Keys)
    \/ Binding(MainThread, Keys, Objects)
    \/ Resolving(MainThread, Keys)
    \/ Queries(MainThread, Keys)
    \/ RequestScope(MainThread)
OutsideSpec == RequestInit /\ [][OutsideNext]_vars

\* a RequestScope whose threads also probe it
ProbeNext ==
    \/ RequestNext
    \/ \E t \in Threads : Queries(t, {"k1"})
ProbeSpec == RequestInit /\ [][ProbeNext]_vars

\* an ApplicationScope in which k1 is bound to a value and has a factory;
\* the main thread rebinds k1 while the other threads get it
RebindInit ==
    /\ scope = "ApplicationScope"
    /\ data = [s \in Stores |->
                 IF s = SharedStore
                 THEN [EmptyDict EXCEPT ![ScopeKey] = Self,
                                        !["k1"] = <<"v", 1>>]
                 ELSE EmptyDict]
    /\ factories = [NoFactories EXCEPT !["k1"] = "f1"]
    /\ request_started = [t \in Threads |-> FALSE]
    /\ frame = [t \in Threads |-> Idle]
    /\ calls = 0
    /\ depth = [t \in Threads |-> 0]
    /\ reqcalls = [t \in Threads |-> [k \in Keys |-> 0]]

Rebinding(t, K, V) ==
    \/ \E type \in K, to \in V : Bind(t, type, to)
    \/ unbind_in(t)
    \/ unbind_del(t)
    \/ bind_store(t)
    \/ Return(t)

RebindNext ==
    \/ Rebinding(MainThread, {"k1"}, {<<"v", 2>>})
    \/ \E t \in Threads \ {MainThread} : Getting(t, {"k1"})
RebindSpec == RebindInit /\ [][RebindNext]_vars

\* one thread, the others never calling
SoloNext ==
    \/ AbstractScope(MainThread, Keys, Objects, Factories \cup {NotCallable})
    \/ Queries(MainThread, Keys)
    \/ RequestScope(MainThread)
    \/ WithBlock(MainThread)

SoloSpec == Init /\ [][SoloNext]_vars

(***************************************************************************)
(* Observations of a call that has finished and not yet been returned.     *)
(***************************************************************************)
Done(t, op) == frame[t].pc = "done" /\ frame[t].op = op
Ok(t) == frame[t].exc = "none"
\* the call found its key bound / found a factory for its key
FoundBound(t) == frame[t].pre[frame[t].type] # NoKey
FoundFactory(t) == frame[t].prefac[frame[t].type] # NoFactory
\* the thread takes a step of a call of op, its first or a later one
StepOf(t, op) == frame'[t] # frame[t] /\ frame'[t].op = op
EndsRequest(t) == StepOf(t, "end") \/ StepOf(t, "__exit__")

(***************************************************************************)
(* C1.  In a run of one thread, on every scope type: once bind(k, v) has   *)
(* succeeded the store holds v for k; a binding changes only inside the    *)
(* thread's bind(k, ...), unbind(k), end() or with-block exit; and a get(k)*)
(* that finds k bound returns the bound value without invoking a factory,  *)
(* whether or not one is registered, while is_bound(k) and `k in scope`    *)
(* answer True exactly when k is bound.                                    *)
(***************************************************************************)
C1_Bound ==
    \A t \in Threads :
        /\ Done(t, "bind") /\ Ok(t) =>
              /\ bindings(t)[frame[t].type] = frame[t].to
              /\ is_bound(t, frame[t].type)
        /\ Done(t, "get") /\ FoundBound(t) /\ request_required(t) =>
              /\ Ok(t)
              /\ frame[t].ret = frame[t].pre[frame[t].type]
              /\ frame[t].invoked = 0
        /\ Done(t, "is_bound") \/ Done(t, "__contains__") =>
              /\ Ok(t)
              /\ frame[t].ret = Bool(FoundBound(t))

C1_Kept ==
    \A t \in Threads, k \in Keys :
        is_bound(t, k) /\ bindings(t)'[k] # bindings(t)[k] =>
            \E u \in Threads :
                /\ Store(u) = Store(t)
                /\ \/ EndsRequest(u)
                   \/ /\ StepOf(u, "bind") \/ StepOf(u, "unbind")
                      /\ frame'[u].type = k

C1_BindThenGet == []C1_Bound /\ [][C1_Kept]_vars

\* a get returns a directly bound value although a factory is registered
C1_Witness ==
    \E t \in Threads :
        /\ Done(t, "get") /\ Ok(t)
        /\ frame[t].ret \in Objects
        /\ FoundFactory(t)
        /\ frame[t].invoked = 0

(***************************************************************************)
(* C2.  Factory memoization, in a run of one thread: a get(k) that finds   *)
(* no binding but a factory f for k invokes f exactly once, returns the    *)
(* object made and leaves it bound to k; a get(k) that finds k bound       *)
(* returns the bound object and invokes nothing; a factory is invoked only *)
(* by a get of a key that is unbound at that moment; and a memoized object *)
(* stays bound until the thread's unbind(k) (bind(k, ...) calls it) or     *)
(* end().                                                                  *)
(***************************************************************************)
Memoized(t, k) == is_bound(t, k) /\ bindings(t)[k][1] \in Factories

C2_Memo ==
    \A t \in Threads :
        /\ frame[t].invoked <= 1
        /\ Done(t, "get") /\ request_required(t) =>
              IF FoundBound(t)
              THEN /\ Ok(t)
                   /\ frame[t].invoked = 0
                   /\ frame[t].ret = frame[t].pre[frame[t].type]
              ELSE FoundFactory(t) =>
                   /\ Ok(t)
                   /\ frame[t].invoked = 1
                   /\ frame[t].ret =
                         Made(frame[t].prefac[frame[t].type], calls)
                   /\ bindings(t)[frame[t].type] = frame[t].ret

C2_Once ==
    /\ calls' # calls =>
          \E t \in Threads :
              /\ StepOf(t, "get")
              /\ ~is_bound(t, frame[t].type)
              /\ calls' = calls + 1
    /\ \A t \in Threads, k \in Keys :
          Memoized(t, k) /\ bindings(t)'[k] # bindings(t)[k] =>
              \E u \in Threads :
                  /\ Store(u) = Store(t)
                  /\ \/ EndsRequest(u)
                     \/ frame[u].pc = "unbind_del" /\ frame[u].type = k

C2_FactoryMemoized == []C2_Memo /\ [][C2_Once]_vars

\* a later get returns the object an earlier get made
C2_Witness ==
    \E t \in Threads :
        /\ Done(t, "get") /\ Ok(t)
        /\ FoundBound(t)
        /\ frame[t].ret[1] \in Factories
        /\ frame[t].invoked = 0
        /\ calls = 1

(***************************************************************************)
(* C3.  RequestScope, threads interleaved: a bind, unbind or get called    *)
(* while the caller's request_started is false raises NoRequestError in    *)
(* its first step, which changes no binding, no factory and no flag; a     *)
(* call made while the flag is true never raises NoRequestError, and       *)
(* nothing else ever raises it.                                            *)
(***************************************************************************)
Guarded == {"bind", "unbind", "get"}

C3_Raises ==
    \A t \in Threads :
        /\ frame[t].exc = "NoRequestError" => frame[t].op \in Guarded
        /\ frame[t].op \in Guarded =>
              /\ frame[t].pc = "done" =>
                    (frame[t].exc = "NoRequestError" <=> ~request_started[t])
              /\ frame[t].pc # "done" => request_started[t]

C3_Untouched ==
    \A t \in Threads :
        frame'[t].exc = "NoRequestError" /\ frame'[t] # frame[t] =>
            /\ ~request_started[t]
            /\ UNCHANGED <<data, factories, request_started, calls>>

C3_RequestGuard == []C3_Raises /\ [][C3_Untouched]_vars

\* get raises on a thread with no request active, a factory being
\* registered and a request in which it was used having ended
C3_Witness ==
    \E t \in Threads :
        /\ Done(t, "get")
        /\ frame[t].exc = "NoRequestError"
        /\ FoundFactory(t)
        /\ calls = 1
        /\ \A u \in Threads \ {t} : frame[u] = Idle /\ ~request_started[u]
        /\ \A u \in Threads : \A k \in Keys : reqcalls[u][k] = 0

(***************************************************************************)
(* C4.  RequestScope, one thread: whenever no request is active the        *)
(* thread's binding map is empty, so a start() after end() begins with no  *)
(* binding of an earlier request; start and end leave the factories as     *)
(* they are.  As stated, the factory of a factory-bound key k is invoked   *)
(* exactly once in each request in which get(k) is called (C4_Original,    *)
(* read of the gets that return an object the factory made).               *)
(* What holds (C4_RequestReset): a get(k) invokes the factory exactly once *)
(* when it finds k unbound and not at all when it finds k bound, so not    *)
(* after a bind(k, v) and again after an unbind(k) in the same request.    *)
(***************************************************************************)
C4_Empty ==
    \A t \in Threads :
        scope = "RequestScope" /\ ~request_started[t] =>
            /\ bindings(t) = EmptyDict
            /\ \A k \in Keys : reqcalls[t][k] = 0

C4_Original ==
    /\ C4_Empty
    /\ \A t \in Threads :
          scope = "RequestScope" /\ Done(t, "get") /\ Ok(t) /\ FoundFactory(t)
            /\ frame[t].ret[1] \in Factories
              => reqcalls[t][frame[t].type] = 1

C4_Invoked ==
    \A t \in Threads :
        scope = "RequestScope" /\ Done(t, "get") /\ FoundFactory(t)
          /\ request_started[t] =>
            /\ Ok(t)
            /\ frame[t].invoked = IF FoundBound(t) THEN 0 ELSE 1
            /\ reqcalls[t][frame[t].type] >= frame[t].invoked

C4_Bracket ==
    \A t \in Threads :
        request_started'[t] # request_started[t] =>
            /\ factories' = factories
            /\ bindings(t)' = EmptyDict

C4_RequestReset == [](C4_Empty /\ C4_Invoked) /\ [][C4_Bracket]_vars

\* the factory is invoked again by the first get of a later request
C4_Witness ==
    \E t \in Threads, k \in Keys :
        /\ scope = "RequestScope"
        /\ Done(t, "get") /\ Ok(t) /\ frame[t].type = k
        /\ frame[t].invoked = 1
        /\ calls = 2
        /\ reqcalls[t][k] = 1
        /\ \A k2 \in Keys \ {k} : reqcalls[t][k2] = 0

(***************************************************************************)
(* C5.  ThreadScope and RequestScope, two threads interleaved: a step      *)
(* taken by one thread changes neither the bindings another thread sees    *)
(* nor that thread's request flag, so what get(k) and the membership test  *)
(* answer in a thread is what that thread's own calls left: a finished     *)
(* get that found k bound returns the thread's binding of k.               *)
(***************************************************************************)
C5_OwnSteps ==
    \A u \in Threads :
        frame'[u] = frame[u] =>
            /\ bindings(u)' = bindings(u)
            /\ \A k \in Keys : is_bound(u, k)' = is_bound(u, k)
            /\ request_started'[u] = request_started[u]

C5_OwnView ==
    \A u \in Threads :
        /\ frame[u].pc = "get_item" => is_bound(u, frame[u].type)
        /\ Done(u, "get") /\ Ok(u) =>
              frame[u].ret = IF is_bound(u, frame[u].type)
                             THEN bindings(u)[frame[u].type] ELSE None

C5_ThreadIsolation == []C5_OwnView /\ [][C5_OwnSteps]_vars

\* two threads hold different values for one key, and get returns its own
C5_Witness ==
    \E t \in Threads, u \in Threads, k \in Keys :
        /\ t # u
        /\ bindings(t)[k] \in Objects
        /\ bindings(u)[k] \in Objects
        /\ bindings(t)[k] # bindings(u)[k]
        /\ Done(u, "get") /\ frame[u].type = k
        /\ frame[u].ret = bindings(u)[k]

(***************************************************************************)
(* C6.  bind_factory(k, f) with f not callable, one thread.  As stated     *)
(* (C6_Original) the call raises FactoryNotCallable and leaves no factory  *)
(* bound for k.  The code tests callable(f) before it unbinds, so what     *)
(* holds (C6_NotCallable) is that the call raises FactoryNotCallable and   *)
(* leaves every factory, the one bound for k too, as it found them.        *)
(***************************************************************************)
RejectedFactory(t) == Done(t, "bind_factory") /\ ~callable(frame[t].factory)

C6_Original ==
    \A t \in Threads :
        RejectedFactory(t) =>
            /\ frame[t].exc = "FactoryNotCallable"
            /\ ~is_factory_bound(frame[t].type)

C6_NotCallable ==
    \A t \in Threads :
        /\ RejectedFactory(t) =>
              /\ frame[t].exc = "FactoryNotCallable"
              /\ factories = frame[t].prefac
              /\ frame[t].logged = <<>>
        /\ frame[t].exc = "FactoryNotCallable" => RejectedFactory(t)

\* a rejected bind_factory leaves the factory bound before it in place
C6_Witness ==
    \E t \in Threads :
        /\ RejectedFactory(t)
        /\ FoundFactory(t)
        /\ factories[frame[t].type] = frame[t].prefac[frame[t].type]

(***************************************************************************)
(* C7.  Rebinding, one thread: bind(k, v2) on a key already bound raises   *)
(* nothing, leaves k bound to v2 and logs, in this order, one override     *)
(* notice, the unbinding of the old value and the new binding; a bind of   *)
(* an unbound key logs the binding alone.                                  *)
(***************************************************************************)
C7_Rebind ==
    \A t \in Threads :
        Done(t, "bind") /\ request_required(t) =>
            /\ Ok(t)
            /\ bindings(t)[frame[t].type] = frame[t].to
            /\ frame[t].logged =
                  IF FoundBound(t) THEN <<"Overriding", "Unbound", "Bound">>
                  ELSE <<"Bound">>

\* v1 is replaced by another value
C7_Witness ==
    \E t \in Threads :
        /\ Done(t, "bind")
        /\ frame[t].pre[frame[t].type] \in Objects
        /\ frame[t].pre[frame[t].type] # frame[t].to
        /\ bindings(t)[frame[t].type] = frame[t].to
        /\ frame[t].logged[1] = "Overriding"

(***************************************************************************)
(* C8.  unbind, one thread: unbind(k) raises nothing whether or not k is   *)
(* bound (on a RequestScope, inside a request), leaves k unbound and every *)
(* other key as it was; a get(k) that finds k unbound invokes the factory  *)
(* registered for k, binds and returns the new object, and returns None    *)
(* when there is no factory.                                               *)
(***************************************************************************)
C8_Unbind ==
    \A t \in Threads :
        /\ Done(t, "unbind") /\ request_required(t) =>
              /\ Ok(t)
              /\ ~is_bound(t, frame[t].type)
              /\ \A k \in AllKeys \ {frame[t].type} :
                    bindings(t)[k] = frame[t].pre[k]
              /\ frame[t].logged =
                    IF FoundBound(t) THEN <<"Unbound">> ELSE <<>>
        /\ Done(t, "get") /\ ~FoundBound(t) /\ request_required(t) =>
              /\ Ok(t)
              /\ IF FoundFactory(t)
                 THEN /\ frame[t].invoked = 1
                      /\ frame[t].ret[1] = frame[t].prefac[frame[t].type]
                      /\ bindings(t)[frame[t].type] = frame[t].ret
                 ELSE /\ frame[t].invoked = 0
                      /\ frame[t].ret = None
                      /\ ~is_bound(t, frame[t].type)

\* after an unbind, get invokes the factory a second time for the key
C8_Witness ==
    \E t \in Threads :
        /\ Done(t, "get") /\ Ok(t)
        /\ frame[t].invoked = 1
        /\ reqcalls[t][frame[t].type] = 2

\* unbind of a key that is not bound
C8_WitnessUnbound ==
    \E t \in Threads :
        Done(t, "unbind") /\ request_required(t) /\ ~FoundBound(t)

(***************************************************************************)
(* C9.  `with scope:` on a RequestScope, one thread: __enter__ starts the  *)
(* request and returns the scope; __exit__ ends it whether the body ended  *)
(* normally or with an exception, leaving the thread inactive with an      *)
(* empty binding map, returns False and so lets the body's exception       *)
(* through; and no binding outlives the request: the map is empty whenever *)
(* no request is active, and a start() begins with it empty.               *)
(***************************************************************************)
C9_Block ==
    \A t \in Threads :
        /\ Done(t, "__enter__") =>
              /\ Ok(t)
              /\ request_started[t]
              /\ frame[t].ret = Self
        /\ Done(t, "__exit__") =>
              /\ ~request_started[t]
              /\ bindings(t) = EmptyDict
              /\ frame[t].ret = False
              /\ frame[t].exc = frame[t].to[1]
        /\ scope = "RequestScope" /\ ~request_started[t] =>
              bindings(t) = EmptyDict

C9_Begins ==
    \A t \in Threads :
        ~request_started[t] /\ request_started'[t] =>
            bindings(t)' = EmptyDict

C9_ScopedRequest == []C9_Block /\ [][C9_Begins]_vars

\* a block that bound something ends with the body's exception
C9_Witness ==
    \E t \in Threads, k \in Keys :
        /\ Done(t, "__exit__")
        /\ frame[t].to[1] = "BodyError"
        /\ frame[t].exc = "BodyError"
        /\ frame[t].pre[k] # NoKey
        /\ bindings(t) = EmptyDict
        /\ ~request_started[t]

(***************************************************************************)
(* C10.  ApplicationScope with a factory for k and k never bound, two      *)
(* threads whose first get(k) overlap so that both invoke the factory.     *)
(* Neither call raises, each returns the object it made, and when both     *)
(* have finished k is bound to one of the two objects, the one stored      *)
(* last.  As stated (C10_Original) that last bind is logged as an          *)
(* override.  What holds (C10_FactoryRace): at most one of the two binds   *)
(* logs an override, and one that does is the last; when both binds test   *)
(* is_bound before either stores, no override is logged at all.  Once k is *)
(* bound and no get of k is past its test of the bindings, the binding     *)
(* never changes and every get(k) returns it without invoking the factory. *)
(***************************************************************************)
Logged(t, msg) == \E i \in 1..Len(frame[t].logged) : frame[t].logged[i] = msg

\* both threads have finished a get(k) that invoked the factory, the first
\* invocation for k of each
Raced(t, u, k) ==
    /\ t # u
    /\ Done(t, "get") /\ frame[t].type = k /\ frame[t].invoked = 1
    /\ Done(u, "get") /\ frame[u].type = k /\ frame[u].invoked = 1
    /\ reqcalls[t][k] = 1 /\ reqcalls[u][k] = 1

Benign(t, u, k) ==
    /\ Ok(t) /\ Ok(u)
    /\ frame[t].ret = frame[t].to /\ frame[t].ret[1] = factories[k]
    /\ frame[u].ret = frame[u].to /\ frame[u].ret[1] = factories[k]
    /\ frame[t].ret # frame[u].ret
    /\ bindings(t)[k] \in {frame[t].ret, frame[u].ret}

C10_Race ==
    \A t \in Threads, u \in Threads, k \in Keys :
        Raced(t, u, k) =>
            /\ Benign(t, u, k)
            /\ ~(Logged(t, "Overriding") /\ Logged(u, "Overriding"))
            /\ Logged(t, "Overriding") => bindings(t)[k] = frame[t].ret

Settled(k) ==
    /\ data[SharedStore][k] # NoKey
    /\ \A t \in Threads :
          frame[t].type = k => frame[t].pc \in {"idle", "done", "get_item"}

C10_Later ==
    \A k \in Keys :
        Settled(k) =>
            /\ Settled(k)'
            /\ data'[SharedStore][k] = data[SharedStore][k]
            /\ \A t \in Threads :
                  StepOf(t, "get") /\ frame'[t].type = k =>
                      /\ frame'[t].invoked = 0
                      /\ frame'[t].pc = "done" =>
                            /\ frame'[t].exc = "none"
                            /\ frame'[t].ret = data[SharedStore][k]

C11_BindNeverRaises ==
    \A t \in Threads : Done(t, "bind") => Ok(t)

\* a bind that found its key bound, passed both tests and failed in the del
C11_Witness ==
    \E t \in Threads :
        /\ scope = "ApplicationScope"
        /\ Done(t, "bind")
        /\ FoundBound(t)
        /\ frame[t].exc = "KeyError"
        /\ Logged(t, "Overriding")
        /\ ~is_bound(t, frame[t].type)

(***************************************************************************)
(* C12.  The binding map and the factory map are independent.  No step of  *)
(* bind_factory, unbind_factory or is_factory_bound changes a binding; no  *)
(* step of bind, unbind, get, start, end or of a with-block changes the    *)
(* factory map, so resolving k through its factory leaves the factory in   *)
(* place; and a get(k) that finds k bound returns the bound value without  *)
(* invoking anything, whatever has happened to the factory of k since the  *)
(* value was made.                                                         *)
(***************************************************************************)
FactoryOps == {"bind_factory", "unbind_factory", "is_factory_bound"}
BindingOps == {"bind", "unbind", "get", "is_bound", "__contains__",
               "start", "end", "__enter__", "__exit__"}

C12_Frame ==
    \A t \in Threads :
        /\ (\E op \in FactoryOps : StepOf(t, op)) => data' = data
        /\ (\E op \in BindingOps : StepOf(t, op)) => factories' = factories

C12_Kept ==
    \A t \in Threads :
        /\ Done(t, "get") /\ FoundBound(t) =>
              /\ Ok(t)
              /\ frame[t].invoked = 0
              /\ frame[t].ret = frame[t].pre[frame[t].type]
              /\ bindings(t)[frame[t].type] = frame[t].ret
        /\ Done(t, "get") /\ frame[t].invoked = 1 /\ Ok(t) =>
              factories[frame[t].type] = frame[t].factory
        /\ (\E op \in FactoryOps : Done(t, op)) => bindings(t) = frame[t].pre

C12_Independent == []C12_Kept /\ [][C12_Frame]_vars

\* a get returns the object a factory made although the key's factory has
\* since been replaced or removed
C12_Witness ==
    \E t \in Threads :
        /\ Done(t, "get")
        /\ FoundBound(t)
        /\ frame[t].ret[1] \in Factories
        /\ factories[frame[t].type] # frame[t].ret[1]
        /\ frame[t].invoked = 0

(***************************************************************************)
(* C13.  ThreadScope, threads registering a factory for k and calling      *)
(* get(k), no thread unbinding.  The factory one thread registered is the  *)
(* one every thread's get(k) uses.  Under every interleaving a thread      *)
(* invokes the factory for k at most once; a get(k) that found the factory *)
(* registered leaves the thread with exactly one invocation, made by this  *)
(* get when it found k unbound in the thread's map and by an earlier get   *)
(* of this thread otherwise; it returns the thread's own binding, which is *)
(* an object the factory made and is bound in no other thread's map.  A    *)
(* thread's binding, once made, never changes, and only the thread's own   *)
(* get makes it.                                                           *)
(***************************************************************************)
C13_PerThread ==
    /\ \A t \in Threads, k \in Keys : reqcalls[t][k] <= 1
    /\ \A t \in Threads :
          Done(t, "get") /\ FoundFactory(t) =>
              /\ Ok(t)
              /\ reqcalls[t][frame[t].type] = 1
              /\ frame[t].invoked = (IF FoundBound(t) THEN 0 ELSE 1)
              /\ frame[t].ret = bindings(t)[frame[t].type]
              /\ frame[t].ret[1] = factories[frame[t].type]
              /\ \A u \in Threads \ {t} :
                    data[u][frame[t].type] # frame[t].ret

C13_Own ==
    \A t \in Threads :
        /\ \A k \in Keys : data[t][k] # NoKey => data'[t][k] = data[t][k]
        /\ data'[t] # data[t] => StepOf(t, "get")

C13_ThreadMemo == []C13_PerThread /\ [][C13_Own]_vars

\* the factory u registered has made one object for u and another for t,
\* and u's later get returns u's own
C13_Witness ==
    \E t \in Threads, u \in Threads, k \in Keys :
        /\ t # u
        /\ Done(t, "get") /\ frame[t].type = k /\ frame[t].invoked = 1
        /\ Done(u, "get") /\ frame[u].type = k /\ frame[u].invoked = 0
        /\ FoundBound(u)
        /\ frame[u].ret[1] = "f1" /\ frame[t].ret[1] = "f1"
        /\ frame[u].ret # frame[t].ret
        /\ data[u][k] = frame[u].ret /\ data[t][k] = frame[t].ret

(***************************************************************************)
(* C14.  RequestScope.start() is idempotent and non-destructive.  Every    *)
(* start() leaves the calling thread's flag true and changes no binding    *)
(* and no factory; called with the request already active it changes       *)
(* nothing at all but the caller's own record of the call.  So a value     *)
(* bound before the second start() is still what get returns after it.     *)
(***************************************************************************)
C14_Step ==
    \A t \in Threads :
        StepOf(t, "start") =>
            /\ request_started'[t]
            /\ data' = data
            /\ factories' = factories
            /\ request_started[t] => request_started' = request_started

C14_After ==
    \A t \in Threads :
        /\ Done(t, "start") =>
              /\ Ok(t)
              /\ request_started[t]
              /\ bindings(t) = frame[t].pre
              /\ factories = frame[t].prefac
        /\ scope = "RequestScope" /\ Done(t, "get") /\ FoundBound(t) =>
              /\ Ok(t)
              /\ frame[t].ret = frame[t].pre[frame[t].type]

C14_StartIdempotent == []C14_After /\ [][C14_Step]_vars

\* start() called in a request that already holds a binding and a factory
C14_Witness ==
    \E t \in Threads, k \in Keys, j \in Keys :
        /\ Done(t, "start")
        /\ frame[t].pre[k] \in Objects
        /\ bindings(t)[k] = frame[t].pre[k]
        /\ factories[j] \in Factories
        /\ request_started[t]

(***************************************************************************)
(* C15.  Absent lookups are not errors.  A get(k) that finds neither a     *)
(* binding nor a factory for k (in a RequestScope, with the request        *)
(* active) returns None without raising, invokes and logs nothing, and no  *)
(* step of it changes the binding map or the factory map: k is unbound     *)
(* afterwards as before.                                                   *)
(***************************************************************************)
Absent(fr) ==
    /\ fr.op = "get"
    /\ fr.pre[fr.type] = NoKey
    /\ fr.prefac[fr.type] = NoFactory

C15_None ==
    \A t \in Threads :
        frame[t].pc = "done" /\ Absent(frame[t]) /\ request_required(t) =>
            /\ Ok(t)
            /\ frame[t].ret = None
            /\ frame[t].invoked = 0
            /\ frame[t].logged = <<>>
            /\ bindings(t) = frame[t].pre
            /\ ~is_bound(t, frame[t].type)
            /\ factories = frame[t].prefac

C15_Frame ==
    \A t \in Threads :
        frame'[t] # frame[t] /\ Absent(frame'[t]) =>
            /\ data' = data
            /\ factories' = factories
            /\ calls' = calls

C15_AbsentLookup == []C15_None /\ [][C15_Frame]_vars

\* in an active request that holds another binding, get of a key with no
\* binding and no factory has returned None
C15_Witness ==
    \E t \in Threads, j \in Keys :
        /\ scope = "RequestScope" /\ request_started[t]
        /\ frame[t].pc = "done" /\ Absent(frame[t])
        /\ frame[t].ret = None /\ Ok(t)
        /\ bindings(t)[j] \in Objects

(***************************************************************************)
(* C16.  The request-active flag of a RequestScope is per thread.  A       *)
(* thread's flag becomes true only in a step of that thread's start() and  *)
(* false only in a step of that thread's end(); start() leaves the         *)
(* caller's flag true and end() leaves it false; and under every           *)
(* interleaving a start() or end() of thread A changes neither the flag    *)
(* nor the bindings of any other thread B.  So while B's request is active *)
(* B's bind, unbind and get never raise NoRequestError, B's bind leaves    *)
(* its value bound and B's get returns the value it found bound, whatever  *)
(* A starts or ends meanwhile.                                             *)
(***************************************************************************)
Starts(t) == StepOf(t, "start") \/ StepOf(t, "__enter__")

C16_Flag ==
    \A u \in Threads :
        /\ ~request_started[u] /\ request_started'[u] => Starts(u)
        /\ request_started[u] /\ ~request_started'[u] => EndsRequest(u)
        /\ Starts(u) => request_started'[u]
        /\ EndsRequest(u) => ~request_started'[u]
        /\ \A t \in Threads \ {u} :
              Starts(t) \/ EndsRequest(t) =>
                  /\ request_started'[u] = request_started[u]
                  /\ data'[u] = data[u]

C16_Safe ==
    \A u \in Threads :
        request_started[u] /\ frame[u].op \in Guarded =>
            /\ frame[u].exc # "NoRequestError"
            /\ Done(u, "bind") => bindings(u)[frame[u].type] = frame[u].to
            /\ Done(u, "get") /\ FoundBound(u) =>
                  frame[u].ret = frame[u].pre[frame[u].type]

C16_PerThreadFlag == []C16_Safe /\ [][C16_Flag]_vars

\* t has ended a request that held a binding; u, whose request is still
\* active, has got the value it had bound
C16_Witness ==
    \E t \in Threads, u \in Threads, k \in Keys :
        /\ t # u
        /\ Done(t, "end")
        /\ frame[t].pre[k] \in Objects
        /\ ~request_started[t] /\ bindings(t) = EmptyDict
        /\ request_started[u]
        /\ Done(u, "get") /\ frame[u].type = k /\ Ok(u)
        /\ frame[u].ret \in Objects
        /\ bindings(u)[k] = frame[u].ret

(***************************************************************************)
(* C17.  On a RequestScope is_bound, the membership test,                  *)
(* is_factory_bound, bind_factory and unbind_factory are not guarded: with *)
(* or without an active request they complete without NoRequestError,      *)
(* the queries answering from the maps and the other two leaving the       *)
(* factory registered or removed.  A factory registered with no request    *)
(* active is the one get(k) invokes in a later request.                    *)
(***************************************************************************)
Unguarded == {"is_bound", "__contains__", "is_factory_bound",
              "bind_factory", "unbind_factory"}

C17_NoGuard ==
    \A t \in Threads :
        /\ frame[t].op \in Unguarded => Ok(t)
        /\ Done(t, "is_bound") \/ Done(t, "__contains__") =>
              frame[t].ret = Bool(is_bound(t, frame[t].type))
        /\ Done(t, "is_factory_bound") =>
              frame[t].ret = Bool(is_factory_bound(frame[t].type))
        /\ Done(t, "bind_factory") =>
              factories[frame[t].type] = frame[t].factory
        /\ Done(t, "unbind_factory") =>
              factories[frame[t].type] = NoFactory

C17_Used ==
    /\ \A t \in Threads :
          Done(t, "get")' /\ request_started'[t] /\ FoundFactory(t)'
              /\ ~FoundBound(t)' =>
              /\ Ok(t)'
              /\ frame'[t].invoked = 1
              /\ frame'[t].ret =
                    Made(frame'[t].prefac[frame'[t].type], calls')
    /\ \A k \in Keys :
          /\ factories[k] = "f1" /\ factories'[k] # "f1" =>
                \E t \in Threads :
                    StepOf(t, "bind_factory") \/ StepOf(t, "unbind_factory")
          /\ factories[k] # "f1" /\ factories'[k] = "f1" =>
                \E t \in Threads :
                    StepOf(t, "bind_factory") /\ ~request_started[t]

C17_Unguarded == []C17_NoGuard /\ [][C17_Used]_vars

\* get has invoked f1, which only a bind_factory made outside any request
\* registers, in a request later than the one of the first invocation
C17_Witness ==
    \E t \in Threads :
        /\ scope = "RequestScope" /\ request_started[t]
        /\ Done(t, "get") /\ frame[t].invoked = 1
        /\ frame[t].ret = Made("f1", calls)
        /\ calls = 2
        /\ \A k \in Keys :
              reqcalls[t][k] = (IF k = frame[t].type THEN 1 ELSE 0)

(***************************************************************************)
(* C18.  RequestScope, any threads calling start, end, bind, unbind, get,  *)
(* bind_factory, unbind_factory and the probes in any order: whenever a    *)
(* thread's request_started is false its binding map is empty, and an      *)
(* is_bound or membership probe the thread makes then returns False.       *)
(***************************************************************************)
C18_InactiveEmpty ==
    \A t \in Threads :
        scope = "RequestScope" /\ ~request_started[t] =>
            /\ bindings(t) = EmptyDict
            /\ \A k \in AllKeys : ~is_bound(t, k)
            /\ Done(t, "is_bound") \/ Done(t, "__contains__") =>
                  Ok(t) /\ frame[t].ret = False

\* the request in which the factory made its value has ended; t, inactive,
\* probes the key and gets False while u holds a binding for it
C18_Witness ==
    \E t \in Threads, u \in Threads :
        /\ t # u
        /\ ~request_started[t]
        /\ Done(t, "is_bound") /\ frame[t].ret = False
        /\ request_started[u]
        /\ bindings(u)[frame[t].type] \in Objects
        /\ reqcalls[u][frame[t].type] = 0
        /\ calls = 1
        /\ frame[u] = Idle

(***************************************************************************)
(* C19.  RequestScope start/end are not counted.  Every end(), and every   *)
(* exit of a with-block, leaves the calling thread inactive with an empty  *)
(* binding map, whether the request was started once, several times or     *)
(* not at all, and end() itself raises nothing.  So after the exit of a    *)
(* with-block nested in another the thread is inactive inside the outer    *)
(* block: the outer request's bindings are gone, and bind, get and unbind  *)
(* raise NoRequestError until the next start().                            *)
(***************************************************************************)
C19_Ends ==
    \A t \in Threads :
        EndsRequest(t) =>
            /\ ~request_started'[t]
            /\ bindings(t)' = EmptyDict
            /\ frame'[t].pc = "done"
            /\ frame'[t].op = "end" => frame'[t].exc = "none"
            /\ frame'[t].op = "__exit__" => frame'[t].exc = frame'[t].to[1]

C19_Inactive ==
    \A t \in Threads :
        /\ Done(t, "end") \/ Done(t, "__exit__") =>
              ~request_started[t] /\ bindings(t) = EmptyDict
        /\ scope = "RequestScope" /\ ~request_started[t]
              /\ frame[t].op \in Guarded =>
              /\ frame[t].pc = "done"
              /\ frame[t].exc = "NoRequestError"
              /\ bindings(t) = EmptyDict

C19_NotCounted == []C19_Inactive /\ [][C19_Ends]_vars

\* the exit of a with-block nested in another: the thread is still inside
\* the outer block, the bindings the request held are gone
C19_Witness ==
    \E t \in Threads, k \in Keys :
        /\ Done(t, "__exit__")
        /\ depth[t] = 1
        /\ frame[t].pre[k] \in Objects
        /\ bindings(t) = EmptyDict
        /\ ~request_started[t]

(***************************************************************************)
(* C20.  ApplicationScope, k bound to v1 and a factory registered for k;   *)
(* one thread rebinds k to v2 while another calls get(k).  Every get(k)    *)
(* returns v1 or v2 and the factory is never invoked                       *)
(* (C20_GetSeesBinding).  The code does not keep this: bind deletes the    *)
(* old binding (line 39) before it stores the new one (line 34), and a     *)
(* get that tests `type in self._bindings` (line 61) before the delete     *)
(* and reads (line 62) after it returns None (C20_Witness), while a get    *)
(* that tests between the delete and the store goes to the factory.        *)
(***************************************************************************)
C20_GetSeesBinding ==
    /\ calls = 0
    /\ \A t \in Threads :
          Done(t, "get") =>
              /\ Ok(t)
              /\ frame[t].ret \in Objects
              /\ frame[t].invoked = 0

\* get found k bound and returned None; no factory was invoked
C20_Witness ==
    \E t \in Threads \ {MainThread} :
        /\ Done(t, "get") /\ frame[t].type = "k1"
        /\ FoundBound(t)
        /\ Ok(t)
        /\ frame[t].ret = None
        /\ calls = 0
        /\ frame[MainThread].op = "bind"
        /\ frame[MainThread].pc = "bind_store"

\* get found k unbound between the delete and the store and invoked the
\* factory
C20_WitnessFactory ==
    \E t \in Threads \ {MainThread} :
        /\ Done(t, "get") /\ frame[t].type = "k1"
        /\ ~FoundBound(t)
        /\ frame[t].invoked = 1
        /\ frame[t].ret = Made("f1", 1)
        /\ calls = 1

====
